---- MODULE Spec2Model ----
(***************************************************************************)
(* Model of qbittorrent_rust's torrent-addition workflow                   *)
(* (src/qbittorrent_rust/src/api_fns/torrents/add_torrent.rs):             *)
(*   TorrentAddDescriptorBuilder (new, setters, build),                    *)
(*   TorrentAddDescriptor, torrents_part, thing and                        *)
(*   QbitApi::torrents_add_torrent.                                        *)
(***************************************************************************)
EXTENDS Integers, Sequences, FiniteSets, TLC

\* ------------------------------------------------------------------ bounds

\* Longest batch of sources handed to the builder.
MaxBatch == 3

\* Most setter calls chained on one builder before build().
MaxSetters == 1

\* ------------------------------------------------------------ value domains

Urls == {"magnet:A", "magnet:B"}
Paths == {"/tmp/a.torrent", "/tmp/b.torrent"}

\* HTTP statuses a completed send may carry.
Statuses == {200, 403}

None == [some |-> FALSE]
Some(v) == [some |-> TRUE, val |-> v]

\* Torrent / TorrentInner: a source is either Url(url) or RawTorrent(path).
Url(u) == [kind |-> "Url", val |-> u]
RawTorrent(p) == [kind |-> "RawTorrent", val |-> p]
Sources == {Url(u) : u \in Urls} \cup {RawTorrent(p) : p \in Paths}

RECURSIVE SeqsUpTo(_, _)
SeqsUpTo(S, n) ==
    IF n = 0 THEN {<<>>}
    ELSE LET shorter == SeqsUpTo(S, n - 1)
         IN shorter \cup {Append(s, x) : s \in {t \in shorter : Len(t) = n - 1}, x \in S}

Batches == SeqsUpTo(Sources, MaxBatch)

\* The optional settings, in the order `thing` renders them.
OptFields == <<"savepath", "cookie", "category", "tags", "skip_checking", "paused",
               "root_folder", "rename", "up_limit", "dl_limit", "ratio_limit",
               "seeding_time_limit", "auto_tmm", "sequential_download",
               "first_last_piece_prio">>

OptFieldSet == {OptFields[i] : i \in 1..Len(OptFields)}

\* Values a setter may be given, per field of TorrentAddDescriptorBuilder.
SetterDomain(f) ==
    CASE f \in {"skip_checking", "paused", "root_folder", "auto_tmm",
                "sequential_download", "first_last_piece_prio"} -> BOOLEAN
      [] f = "tags" -> {<<"t1">>, <<"t1", "t2">>}
      [] f = "savepath" -> {"/downloads"}
      [] f = "cookie" -> {"k=v"}
      [] f = "category" -> {"linux"}
      [] f = "rename" -> {"renamed"}
      [] f = "up_limit" -> {1024}
      [] f = "dl_limit" -> {2048}
      [] f = "ratio_limit" -> {2}
      [] f = "seeding_time_limit" -> {60}

\* ------------------------------------------------------------------ results

Ok(v) == [tag |-> "Ok", val |-> v]
Err(type, detail) == [tag |-> "Err", type |-> type, detail |-> detail]
OkUnit == Ok("()")
NoResult == [tag |-> "None"]

\* ------------------------------------------------- builder and descriptor

\* Mutants of Push: the item is dropped; the item is put in front.
PushNothing(vec, x) == vec
PushFront(vec, x) == <<x>> \o vec

\* vec.push(x)
Push(vec, x) == Append(vec, x)

\* The loop of build(): every Url goes to vec_urls, every RawTorrent to
\* vec_paths, in the order of the batch.
RECURSIVE PartitionFrom(_, _, _, _)
PartitionFrom(t, i, vec_urls, vec_paths) ==
    IF i > Len(t) THEN [urls |-> vec_urls, paths |-> vec_paths]
    ELSE IF t[i].kind = "Url"
         THEN PartitionFrom(t, i + 1, Push(vec_urls, t[i].val), vec_paths)
         ELSE PartitionFrom(t, i + 1, vec_urls, Push(vec_paths, t[i].val))

Partition(t) == PartitionFrom(t, 1, <<>>, <<>>)

\* SepVec::new(vec, sep)
SepVecNew(vec, sep) == [vec |-> vec, sep |-> sep]

\* SepVec::inner_vec
inner_vec(sv) == sv.vec

\* SepVec's to_string: the entries joined by the separator.
RECURSIVE JoinFrom(_, _, _)
JoinFrom(vec, sep, i) ==
    IF i > Len(vec) THEN ""
    ELSE IF i = Len(vec) THEN vec[i]
         ELSE vec[i] \o sep \o JoinFrom(vec, sep, i + 1)

SepVecToString(sv) == JoinFrom(sv.vec, sv.sep, 1)

\* Mutant of BatchRejected: the is_empty() test is missing.
BatchRejectedOnlyAbsent(torrents) == ~torrents.some

\* build(): the batch is refused when absent or empty.
BatchRejected(torrents) ==
    IF torrents.some THEN Len(torrents.val) = 0 ELSE TRUE

\* Mutant of RootFolder: an unset flag is taken for false.
RootFolderUnsetAsFalse(rf) ==
    IF rf.some /\ rf.val THEN "true" ELSE "false"

\* build(): the tri-state root folder flag as a string.
RootFolder(rf) ==
    IF ~rf.some THEN "unset"
    ELSE IF rf.val THEN "true" ELSE "false"

\* Mutant of UrlsSeparator: the urls are joined by a newline.
UrlsSeparatorNewline == "\n"

\* build(): the separator given to the SepVec of urls.
UrlsSeparator == ""

\* build(): the descriptor made of a builder whose batch is accepted.
BuildDescriptor(b) ==
    LET split == Partition(b.torrents.val)
    IN [f \in OptFieldSet \cup {"urls", "paths"} |->
          CASE f = "urls" -> SepVecNew(split.urls, UrlsSeparator)
            [] f = "paths" -> split.paths
            [] f = "tags" -> IF b.tags.some THEN Some(SepVecNew(b.tags.val, ","))
                             ELSE None
            [] f = "root_folder" -> Some(RootFolder(b.root_folder))
            [] OTHER -> b[f]]

\* TorrentAddDescriptorBuilder::build
Build(b) ==
    IF BatchRejected(b.torrents) THEN Err("TorrentsNotSet", "")
    ELSE Ok(BuildDescriptor(b))

\* --------------------------------------------------------------- rendering

\* reqwest::multipart::Form::new()
FormNew == [texts |-> <<>>, parts |-> <<>>]

\* Form::text(name, value)
FormText(form, name, value) == [form EXCEPT !.texts = Append(@, <<name, value>>)]

\* Mutant of FormPart: the part is put before the parts already there.
FormPartFront(form, name, part) == [form EXCEPT !.parts = <<(<<name, part>>)>> \o @]

\* Form::part(name, part)
FormPart(form, name, part) == [form EXCEPT !.parts = Append(@, <<name, part>>)]

\* bool::to_string
BoolToString(b) == IF b THEN "true" ELSE "false"

\* The field name `thing` gives each setting on the wire.
WireName(f) ==
    CASE f = "up_limit" -> "upLimit"
      [] f = "dl_limit" -> "dlLimit"
      [] f = "ratio_limit" -> "ratioLimit"
      [] f = "seeding_time_limit" -> "seedingTimeLimit"
      [] f = "auto_tmm" -> "autoTMM"
      [] f = "sequential_download" -> "sequentialDownload"
      [] f = "first_last_piece_prio" -> "firstLastPiecePrio"
      [] OTHER -> f

\* How `thing` renders the value of a present setting.
RenderSetting(f, v) ==
    CASE f \in {"savepath", "cookie", "category", "root_folder", "rename"} -> v
      [] f = "tags" -> SepVecToString(v)
      [] f \in {"skip_checking", "paused", "auto_tmm", "sequential_download",
                "first_last_piece_prio"} -> BoolToString(v)
      [] OTHER -> ToString(v)

\* thing(form, descriptor): one text field per present setting, in order.
RECURSIVE thingFrom(_, _, _)
thingFrom(form, d, i) ==
    IF i > Len(OptFields) THEN form
    ELSE LET f == OptFields[i]
         IN thingFrom(IF d[f].some
                      THEN FormText(form, WireName(f), RenderSetting(f, d[f].val))
                      ELSE form,
                      d, i + 1)

thing(form, d) == thingFrom(form, d, 1)

\* Mutant of DescriptorAfterThing: thing takes the settings out of the
\* caller's descriptor instead of out of a copy.
DescriptorAfterThingTaken(d) ==
    [f \in DOMAIN d |-> IF f \in OptFieldSet THEN None ELSE d[f]]

\* thing(form_urls, descriptor.clone()): thing consumes a copy, and the
\* caller's descriptor keeps every field.
DescriptorAfterThing(d) == d

\* The URL form of torrents_add_torrent: "urls" then the settings.
FormUrls(d) == thing(FormText(FormNew, "urls", SepVecToString(d.urls)), d)

\* What a file holds.
FileBytes(path) == "bytes:" \o path

\* Opening and reading a path: its bytes, or a failure.
ReadOutcomes(path) == {Ok(FileBytes(path)), Err("io", path)}

\* The multipart part torrents_part makes of a file's bytes.
FilePart(buffer) ==
    [bytes |-> buffer, file_name |-> "torrent_file.torrent",
     mime |-> "application/x-bittorrent"]

\* Mutant of TorrentsPartStep: an unreadable file is skipped.
TorrentsPartStepSkip(form, r) ==
    IF r.tag = "Ok" THEN Ok(FormPart(form, "torrents", FilePart(r.val)))
    ELSE Ok(form)

\* One round of the loop of torrents_part: the form with the file's part
\* added, or TorrentFilePathError.
TorrentsPartStep(form, r) ==
    IF r.tag = "Ok" THEN Ok(FormPart(form, "torrents", FilePart(r.val)))
    ELSE Err("TorrentFilePathError", "")

\* ------------------------------------------------------- transport outcomes

Response(s) == [kind |-> "response", status |-> s, e |-> ""]
TransportError(k) == [kind |-> "error", status |-> 0, e |-> k]
SendOutcomes(k) == {Response(s) : s \in Statuses} \cup {TransportError(k)}

\* Mutant of is_success: the upper end of the 2xx range is not tested.
is_successNoUpperBound(status) == status >= 200

\* StatusCode::is_success
is_success(status) == status >= 200 /\ status <= 299

\* self.get_cookie(): a session id, or an error of its own.
CookieOutcomes == {Ok("sid"), Err("CookieError", "")}

\* Mutant of CookieFailed: the error is swallowed and the call goes on.
CookieFailedIgnored(c) == FALSE

\* `?` on get_cookie's result: an error leaves the function.
CookieFailed(c) == c.tag = "Err"

CookieValue(c) == IF c.tag = "Ok" THEN c.val ELSE ""

\* post(..).multipart(form).header(COOKIE, "SID=<cookie>")
Request(form, c) == [form |-> form, cookie |-> "SID=" \o CookieValue(c)]

\* Mutant of SingleSendResult: any response counts as success.
SingleSendResultAnyResponse(o) ==
    IF o.kind = "error" THEN Err("ReqwestError", o.e) ELSE OkUnit

\* code!(response): the status code of a response.
code(o) == o.status

\* The end of a single-send arm: Ok on a success status, MiscNetError with
\* the status otherwise; a transport error is returned as ReqwestError.
SingleSendResult(o) ==
    IF o.kind = "error" THEN Err("ReqwestError", o.e)
    ELSE IF is_success(o.status) THEN OkUnit
         ELSE Err("MiscNetError", code(o))

\* Mutant of Reconcile: the two one-sided failures are swapped.
ReconcileSwapped(t) ==
    CASE t = <<TRUE, TRUE>> -> OkUnit
      [] t = <<TRUE, FALSE>> ->
            Err("MiscError", "something went wrong while adding torrent files.")
      [] t = <<FALSE, TRUE>> ->
            Err("MiscError", "something went wrong while adding urls.")
      [] t = <<FALSE, FALSE>> ->
            Err("MiscError", "wow, you really messed up. both torrents and urls failed.")

\* The final match of the two-send arm on (files ok, urls ok).
Reconcile(t) ==
    CASE t = <<TRUE, TRUE>> -> OkUnit
      [] t = <<TRUE, FALSE>> ->
            Err("MiscError", "something went wrong while adding urls.")
      [] t = <<FALSE, TRUE>> ->
            Err("MiscError", "something went wrong while adding torrent files.")
      [] t = <<FALSE, FALSE>> ->
            Err("MiscError", "wow, you really messed up. both torrents and urls failed.")

\* Mutant of JoinReady: the join waits until both sends have a response.
JoinReadyBothResponded(t, u) ==
    /\ t.state = "done" /\ t.outcome.kind = "response"
    /\ u.state = "done" /\ u.outcome.kind = "response"

\* Mutant of JoinReady: the first completion wins (a race, not a join).
JoinReadyRace(t, u) == t.state = "done" \/ u.state = "done"

\* tokio::join! is ready when both futures are.
JoinReady(t, u) == t.state = "done" /\ u.state = "done"

\* Mutant of JoinResult: the URL send's outcome is looked at first.
JoinResultUrlsFirst(oT, oU) ==
    IF oU.kind = "error" THEN Err("ReqwestError", oU.e)
    ELSE IF oT.kind = "error" THEN Err("ReqwestError", oT.e)
         ELSE Reconcile(<<is_success(oT.status), is_success(oU.status)>>)

\* What the two-send arm returns once join! has both outcomes.
JoinResult(oT, oU) ==
    IF oT.kind = "error" THEN Err("ReqwestError", oT.e)
    ELSE IF oU.kind = "error" THEN Err("ReqwestError", oU.e)
         ELSE Reconcile(<<is_success(oT.status), is_success(oU.status)>>)

\* The arm torrents_add_torrent takes on (paths empty, urls empty).
Arm(d) ==
    CASE Len(d.paths) = 0 /\ Len(inner_vec(d.urls)) = 0 -> "panic"
      [] Len(d.paths) = 0 /\ Len(inner_vec(d.urls)) # 0 -> "urls"
      [] Len(d.paths) # 0 /\ Len(inner_vec(d.urls)) = 0 -> "files"
      [] OTHER -> "both"

NoSend == [state |-> "none", outcome |-> Response(0)]

\* -------------------------------------------------------------------- state

VARIABLES
    pc,             \* where the caller / torrents_add_torrent stands
    builder,        \* Some(TorrentAddDescriptorBuilder), None once build() consumed it
    setterCalls,    \* setters chained so far
    buildResult,    \* what build() returned, NoResult before
    descriptor,     \* Some(TorrentAddDescriptor) once built
    arm,            \* the match arm torrents_add_torrent took
    readIdx,        \* torrents_part: index of the next path to read
    form_torrents,  \* torrents_part: the form built so far
    built_torrents, \* the file request, once built
    built_urls,     \* the URL request, once built
    sendT,          \* the send of the file request
    sendU,          \* the send of the URL request
    result,         \* what torrents_add_torrent returned, NoResult before
    log             \* history: reads, cookie retrievals, sends, completions

vars == <<pc, builder, setterCalls, buildResult, descriptor, arm, readIdx,
          form_torrents, built_torrents, built_urls, sendT, sendU, result, log>>

builderVars == <<builder, setterCalls, buildResult, descriptor>>
callVars == <<arm, readIdx, form_torrents, built_torrents, built_urls, sendT,
              sendU, result, log>>

\* TorrentAddDescriptorBuilder::new: torrents stored, every option unset.
BuilderNew(torrents) ==
    [f \in OptFieldSet \cup {"torrents"} |->
        IF f = "torrents" THEN Some(torrents) ELSE None]

\* A builder whose torrents field is None: the field's type allows it and
\* build() handles it, though new() always stores Some.
BuilderAbsent == [BuilderNew(<<>>) EXCEPT !["torrents"] = None]

Init ==
    /\ pc = "builder"
    /\ builder \in {Some(BuilderNew(t)) : t \in Batches} \cup {Some(BuilderAbsent)}
    /\ setterCalls = 0
    /\ buildResult = NoResult
    /\ descriptor = None
    /\ arm = "none"
    /\ readIdx = 0
    /\ form_torrents = FormNew
    /\ built_torrents = None
    /\ built_urls = None
    /\ sendT = NoSend
    /\ sendU = NoSend
    /\ result = NoResult
    /\ log = <<>>

\* A derived setter: assigns one optional field, no validation.
Setter(f, v) ==
    /\ pc = "builder"
    /\ setterCalls < MaxSetters
    /\ builder' = Some([builder.val EXCEPT ![f] = Some(v)])
    /\ setterCalls' = setterCalls + 1
    /\ UNCHANGED <<pc, buildResult, descriptor>>
    /\ UNCHANGED callVars

\* build(self): consumes the builder; a descriptor or TorrentsNotSet.
BuildAct ==
    /\ pc = "builder"
    /\ buildResult' = Build(builder.val)
    /\ descriptor' = IF buildResult'.tag = "Ok" THEN Some(buildResult'.val) ELSE None
    /\ pc' = IF buildResult'.tag = "Ok" THEN "built" ELSE "build_err"
    /\ builder' = None
    /\ UNCHANGED setterCalls
    /\ UNCHANGED callVars

\* Leaving torrents_add_torrent with r.
Return(r) ==
    /\ result' = r
    /\ pc' = "done"

\* torrents_add_torrent entered: the match on (paths empty, urls empty).
CallStart ==
    /\ pc = "built"
    /\ arm' = Arm(descriptor.val)
    /\ pc' = CASE arm' = "panic" -> "panicked"
               [] arm' = "urls" -> "cookie_u"
               [] OTHER -> "read"
    /\ readIdx' = 1
    /\ form_torrents' = FormNew
    /\ UNCHANGED <<built_torrents, built_urls, sendT, sendU, result, log>>
    /\ UNCHANGED builderVars

\* torrents_part: one file opened and read, in the order of paths.
ReadFile(r) ==
    /\ pc = "read"
    /\ LET step == TorrentsPartStep(form_torrents, r)
       IN /\ log' = Append(log, <<"read", descriptor.val.paths[readIdx], r.tag = "Ok">>)
          /\ IF step.tag = "Err"
             THEN /\ Return(step)
                  /\ UNCHANGED <<form_torrents, readIdx>>
             ELSE /\ form_torrents' = step.val
                  /\ readIdx' = readIdx + 1
                  /\ pc' = IF readIdx = Len(descriptor.val.paths) THEN "cookie_t" ELSE "read"
                  /\ UNCHANGED result
    /\ UNCHANGED <<arm, built_torrents, built_urls, sendT, sendU>>
    /\ UNCHANGED builderVars

\* The file request gets its cookie; in the files-only arm it is sent.
GetCookieT(c) ==
    /\ pc = "cookie_t"
    /\ IF CookieFailed(c)
       THEN /\ log' = Append(log, <<"cookie", FALSE>>)
            /\ Return(c)
            /\ UNCHANGED <<built_torrents, sendT>>
       ELSE /\ built_torrents' = Some(Request(form_torrents, c))
            /\ UNCHANGED result
            /\ IF arm = "files"
               THEN /\ log' = log \o <<(<<"cookie", c.tag = "Ok">>),
                                       (<<"send", "torrents", built_torrents'.val>>)>>
                    /\ sendT' = [sendT EXCEPT !.state = "inflight"]
                    /\ pc' = "wait"
               ELSE /\ log' = Append(log, <<"cookie", c.tag = "Ok">>)
                    /\ UNCHANGED sendT
                    /\ pc' = "cookie_u"
    /\ UNCHANGED <<arm, readIdx, form_torrents, built_urls, sendU>>
    /\ UNCHANGED builderVars

\* The URL form is rendered and gets its cookie; in the urls-only arm the
\* request is sent.
GetCookieU(c) ==
    /\ pc = "cookie_u"
    /\ IF CookieFailed(c)
       THEN /\ log' = Append(log, <<"cookie", FALSE>>)
            /\ Return(c)
            /\ UNCHANGED <<built_urls, sendU>>
       ELSE /\ built_urls' = Some(Request(FormUrls(descriptor.val), c))
            /\ UNCHANGED result
            /\ IF arm = "urls"
               THEN /\ log' = log \o <<(<<"cookie", c.tag = "Ok">>),
                                       (<<"send", "urls", built_urls'.val>>)>>
                    /\ sendU' = [sendU EXCEPT !.state = "inflight"]
                    /\ pc' = "wait"
               ELSE /\ log' = Append(log, <<"cookie", c.tag = "Ok">>)
                    /\ UNCHANGED sendU
                    /\ pc' = "join"
    /\ descriptor' = Some(DescriptorAfterThing(descriptor.val))
    /\ UNCHANGED <<arm, readIdx, form_torrents, built_torrents, sendT>>
    /\ UNCHANGED <<builder, setterCalls, buildResult>>

\* join! polls its first future: the file request goes out.
JoinPollT ==
    /\ pc = "join"
    /\ sendT.state = "none"
    /\ sendT' = [sendT EXCEPT !.state = "inflight"]
    /\ log' = Append(log, <<"send", "torrents", built_torrents.val>>)
    /\ UNCHANGED <<pc, arm, readIdx, form_torrents, built_torrents, built_urls,
                   sendU, result>>
    /\ UNCHANGED builderVars

\* join! polls its second future: the URL request goes out.
JoinPollU ==
    /\ pc = "join"
    /\ sendT.state # "none"
    /\ sendU.state = "none"
    /\ sendU' = [sendU EXCEPT !.state = "inflight"]
    /\ log' = Append(log, <<"send", "urls", built_urls.val>>)
    /\ UNCHANGED <<pc, arm, readIdx, form_torrents, built_torrents, built_urls,
                   sendT, result>>
    /\ UNCHANGED builderVars

\* The transport finishes the file send.
CompleteT(o) ==
    /\ sendT.state = "inflight"
    /\ sendT' = [state |-> "done", outcome |-> o]
    /\ log' = Append(log, <<"complete", "torrents", o>>)
    /\ UNCHANGED <<pc, arm, readIdx, form_torrents, built_torrents, built_urls,
                   sendU, result>>
    /\ UNCHANGED builderVars

\* The transport finishes the URL send.
CompleteU(o) ==
    /\ sendU.state = "inflight"
    /\ sendU' = [state |-> "done", outcome |-> o]
    /\ log' = Append(log, <<"complete", "urls", o>>)
    /\ UNCHANGED <<pc, arm, readIdx, form_torrents, built_torrents, built_urls,
                   sendT, result>>
    /\ UNCHANGED builderVars

\* A single-send arm resumes with its send's outcome and returns.
SingleReturn ==
    /\ pc = "wait"
    /\ LET s == IF arm = "urls" THEN sendU ELSE sendT
       IN /\ s.state = "done"
          /\ Return(SingleSendResult(s.outcome))
    /\ UNCHANGED <<arm, readIdx, form_torrents, built_torrents, built_urls,
                   sendT, sendU, log>>
    /\ UNCHANGED builderVars

\* The two-send arm resumes after join! and returns.
JoinReturn ==
    /\ pc = "join"
    /\ JoinReady(sendT, sendU)
    /\ Return(JoinResult(sendT.outcome, sendU.outcome))
    /\ UNCHANGED <<arm, readIdx, form_torrents, built_torrents, built_urls,
                   sendT, sendU, log>>
    /\ UNCHANGED builderVars

Next ==
    \/ \E f \in OptFieldSet : \E v \in SetterDomain(f) : Setter(f, v)
    \/ BuildAct
    \/ CallStart
    \/ pc = "read" /\ \E r \in ReadOutcomes(descriptor.val.paths[readIdx]) : ReadFile(r)
    \/ \E c \in CookieOutcomes : GetCookieT(c)
    \/ \E c \in CookieOutcomes : GetCookieU(c)
    \/ JoinPollT
    \/ JoinPollU
    \/ \E o \in SendOutcomes("torrents") : CompleteT(o)
    \/ \E o \in SendOutcomes("urls") : CompleteU(o)
    \/ SingleReturn
    \/ JoinReturn

Spec == Init /\ [][Next]_vars

\* The steps of a call of torrents_add_torrent once it was entered: reads,
\* cookie retrievals, the polls of join!, completions and the returns.
CallStep ==
    \/ pc = "read" /\ \E r \in ReadOutcomes(descriptor.val.paths[readIdx]) : ReadFile(r)
    \/ \E c \in CookieOutcomes : GetCookieT(c)
    \/ \E c \in CookieOutcomes : GetCookieU(c)
    \/ JoinPollT
    \/ JoinPollU
    \/ \E o \in SendOutcomes("torrents") : CompleteT(o)
    \/ \E o \in SendOutcomes("urls") : CompleteU(o)
    \/ SingleReturn
    \/ JoinReturn

\* The sends of the call that just returned: the entries of the log after
\* the last "call" mark that record a send.
RECURSIVE LastCallSends(_)
LastCallSends(l) ==
    IF l = <<>> THEN <<>>
    ELSE LET last == l[Len(l)]
             front == SubSeq(l, 1, Len(l) - 1)
         IN IF last[1] = "call" THEN <<>>
            ELSE IF last[1] = "send" THEN Append(LastCallSends(front), last)
                 ELSE LastCallSends(front)

\* The caller, who lent the descriptor to the call that returned, calls
\* torrents_add_torrent with it again. The history keeps the sends of the
\* call that returned, then a "call" mark.
CallAgain ==
    /\ pc = "done"
    /\ pc' = "built"
    /\ arm' = "none"
    /\ readIdx' = 0
    /\ form_torrents' = FormNew
    /\ built_torrents' = None
    /\ built_urls' = None
    /\ sendT' = NoSend
    /\ sendU' = NoSend
    /\ result' = NoResult
    /\ log' = Append(LastCallSends(log), <<"call">>)
    /\ UNCHANGED builderVars

NextReuse ==
    \/ Next
    \/ CallAgain

\* The builder, a call, and further calls with the same descriptor.
SpecReuse == Init /\ [][NextReuse]_vars

\* Every read, cookie retrieval and issued send completes, and the runtime
\* polls the task again when one has: a call that can step does step.
SpecFair == Spec /\ WF_vars(CallStep)

\* ------------------------------------------------------- history predicates

LogIdx == 1..Len(log)
SendsOf(k) == {i \in LogIdx : log[i][1] = "send" /\ log[i][2] = k}
AllSends == {i \in LogIdx : log[i][1] = "send"}
CompletionsOf(k) == {i \in LogIdx : log[i][1] = "complete" /\ log[i][2] = k}
CookieCalls == {i \in LogIdx : log[i][1] = "cookie"}
FailedReads == {i \in LogIdx : log[i][1] = "read" /\ ~log[i][3]}
FailedCookies == {i \in LogIdx : log[i][1] = "cookie" /\ ~log[i][2]}

\* A send that ended with a response of a 2xx status.
SendOk(s) ==
    s.state = "done" /\ s.outcome.kind = "response" /\ s.outcome.status \in 200..299

GotResponse(s) == s.state = "done" /\ s.outcome.kind = "response"
GotTransportError(s) == s.state = "done" /\ s.outcome.kind = "error"

TwoSendsReturned == arm = "both" /\ pc = "done" /\ sendT.state = "done" /\ sendU.state = "done"

MsgUrlsFailed == "something went wrong while adding urls."
MsgFilesFailed == "something went wrong while adding torrent files."
MsgBothFailed == "wow, you really messed up. both torrents and urls failed."

\* The outcome the reconciliation table gives for (files ok, urls ok).
TableOutcome(filesOk, urlsOk) ==
    IF filesOk /\ urlsOk THEN [tag |-> "Ok", val |-> "()"]
    ELSE [tag |-> "Err", type |-> "MiscError",
          detail |-> IF filesOk THEN MsgUrlsFailed
                     ELSE IF urlsOk THEN MsgFilesFailed ELSE MsgBothFailed]

\* ------------------------------------------------------------------- claims

\* C1: in the two-send arm, when both sends ended with a response, the result
\* is Ok exactly when both statuses are successes, the "urls" error exactly
\* when only the files succeeded, the "torrent files" error exactly when only
\* the urls succeeded, and the "both failed" error exactly when neither did.
C1_ReconciliationTable ==
    (TwoSendsReturned /\ GotResponse(sendT) /\ GotResponse(sendU)) =>
        /\ (result.tag = "Ok") <=> (SendOk(sendT) /\ SendOk(sendU))
        /\ (result.tag = "Err" /\ result.type = "MiscError" /\ result.detail = MsgUrlsFailed)
              <=> (SendOk(sendT) /\ ~SendOk(sendU))
        /\ (result.tag = "Err" /\ result.type = "MiscError" /\ result.detail = MsgFilesFailed)
              <=> (~SendOk(sendT) /\ SendOk(sendU))
        /\ (result.tag = "Err" /\ result.type = "MiscError" /\ result.detail = MsgBothFailed)
              <=> (~SendOk(sendT) /\ ~SendOk(sendU))

\* C1 witness: the file send answered 403, the URL send 200, and the call
\* returned the "torrent files" error.
C1_Witness ==
    /\ TwoSendsReturned
    /\ sendT.outcome = Response(403)
    /\ sendU.outcome = Response(200)
    /\ result = Err("MiscError", MsgFilesFailed)

\* C2: in the two-send arm the call returns from the join only when both
\* sends were issued and both have completed, in whatever order they
\* complete; a send once issued is never taken back, and a send in flight can
\* always complete, whatever the state or outcome of the other send.
C2_JoinNotRace ==
    /\ (arm = "both" /\ pc = "done" /\ (sendT.state # "none" \/ sendU.state # "none")) =>
          /\ sendT.state = "done" /\ sendU.state = "done"
          /\ SendsOf("torrents") # {} /\ SendsOf("urls") # {}
          /\ \A i \in AllSends : \A j \in CompletionsOf("torrents") \cup CompletionsOf("urls") :
                log[j][2] = log[i][2] => i < j
    /\ (SendsOf("torrents") # {}) => sendT.state \in {"inflight", "done"}
    /\ (SendsOf("urls") # {}) => sendU.state \in {"inflight", "done"}
    /\ (sendT.state = "inflight") => ENABLED (\E o \in SendOutcomes("torrents") : CompleteT(o))
    /\ (sendU.state = "inflight") => ENABLED (\E o \in SendOutcomes("urls") : CompleteU(o))

\* C2 witness: the file send failed at the transport level while the URL send
\* was still in flight; the URL send completed later and only then did the
\* call return.
C2_Witness ==
    /\ TwoSendsReturned
    /\ GotTransportError(sendT)
    /\ sendU.outcome = Response(200)
    /\ \E i \in CompletionsOf("torrents") : \E j \in CompletionsOf("urls") : i < j

\* C3 (as claimed): in the two-send arm a transport error of a send counts as
\* that half's failure, and the caller gets the outcome of the reconciliation
\* table for (files ok, urls ok).
C3_TransportErrorReconciled ==
    TwoSendsReturned => result = TableOutcome(SendOk(sendT), SendOk(sendU))
\* The text fields and the binary parts a request carries.
TextNames(req) == {req.form.texts[i][1] : i \in 1..Len(req.form.texts)}
IsUrlPayload(req) ==
    /\ Len(req.form.parts) = 0
    /\ Len(req.form.texts) >= 1
    /\ req.form.texts[1][1] = "urls"
IsFilePayload(req, d) ==
    /\ Len(req.form.parts) = Len(d.paths)
    /\ "urls" \notin TextNames(req)

\* C4: with exactly one of urls/paths non-empty, at most one send is issued,
\* exactly one once the payload is built and the cookie retrieved, and it
\* carries the payload of the kind that is present; the call returns Ok
\* exactly when that send ended with a success status, a network error with
\* the response's status when the status is no success, and the transport
\* error when the send failed at the transport level.
C4_SingleSend ==
    (arm \in {"urls", "files"}) =>
        LET s == IF arm = "urls" THEN sendU ELSE sendT
            other == IF arm = "urls" THEN sendT ELSE sendU
            kind == IF arm = "urls" THEN "urls" ELSE "torrents"
        IN /\ Cardinality(AllSends) <= 1
           /\ other.state = "none"
           /\ \A i \in AllSends :
                 /\ log[i][2] = kind
                 /\ IF arm = "urls" THEN IsUrlPayload(log[i][3])
                    ELSE IsFilePayload(log[i][3], descriptor.val)
           /\ (FailedReads = {} /\ FailedCookies = {} /\ pc \in {"wait", "done"})
                 => Cardinality(AllSends) = 1
           /\ (pc = "done" /\ s.state = "done") =>
                 /\ (result.tag = "Ok") <=> SendOk(s)
                 /\ (GotResponse(s) /\ ~SendOk(s)) =>
                       result = [tag |-> "Err", type |-> "MiscNetError",
                                 detail |-> s.outcome.status]
                 /\ GotTransportError(s) =>
                       (result.tag = "Err" /\ result.type = "ReqwestError")

\* C4 witness: only a URL was given, its one send answered 403 and the call
\* returned the network error carrying 403.
C4_Witness ==
    /\ arm = "urls"
    /\ pc = "done"
    /\ Cardinality(AllSends) = 1
    /\ sendU.outcome = Response(403)
    /\ result = Err("MiscNetError", 403)

\* C5: once a path could not be opened or read, the call has returned
\* TorrentFilePathError, and neither a cookie retrieval nor a send has
\* happened or will: no request was built from the files read before.
C5_ReadFailureSendsNothing ==
    (FailedReads # {}) =>
        /\ pc = "done"
        /\ result = [tag |-> "Err", type |-> "TorrentFilePathError", detail |-> ""]
        /\ AllSends = {}
        /\ CookieCalls = {}
        /\ sendT.state = "none" /\ sendU.state = "none"
        /\ built_torrents = None /\ built_urls = None

\* C5 witness: in the two-send arm the first file was read and the second
\* could not be; the call has returned.
C5_Witness ==
    /\ arm = "both"
    /\ pc = "done"
    /\ Len(log) = 2
    /\ log[1][1] = "read" /\ log[1][3]
    /\ log[2][1] = "read" /\ ~log[2][3]

\* C6 (as claimed): every file request sent carries the descriptor's present
\* optional settings as text fields, rendered as in the URL payload.
C6_FilePayloadCarriesSettings ==
    \A i \in SendsOf("torrents") :
        log[i][3].form.texts = thing(FormNew, descriptor.val).texts

\* A batch that build() must refuse.
EmptyOrAbsent(torrents) == ~torrents.some \/ torrents.val = <<>>

\* C7: build() on a builder whose batch is empty or absent returns
\* TorrentsNotSet and yields no descriptor, whatever setters were called; a
\* failed build never has a descriptor.
C7_EmptyBatchRejected ==
    [][ /\ (pc = "builder" /\ pc' # "builder" /\ EmptyOrAbsent(builder.val.torrents)) =>
              /\ buildResult' = [tag |-> "Err", type |-> "TorrentsNotSet", detail |-> ""]
              /\ descriptor' = None
              /\ pc' = "build_err"
        /\ (pc' = "build_err") => (descriptor' = None /\ buildResult'.tag = "Err")
      ]_vars

\* C7 witness: a build that followed a setter call failed with TorrentsNotSet.
C7_Witness ==
    /\ pc = "build_err"
    /\ setterCalls > 0
    /\ buildResult = Err("TorrentsNotSet", "")
    /\ descriptor = None

\* C8: every descriptor has at least one of urls/paths non-empty, and
\* torrents_add_torrent never takes its (true, true) arm.
C8_DescriptorNonEmpty ==
    /\ descriptor.some => (Len(descriptor.val.urls.vec) + Len(descriptor.val.paths) >= 1)
    /\ (buildResult.tag = "Ok") => descriptor.some
    /\ arm # "panic"
    /\ pc # "panicked"

\* C8 witness: a descriptor with paths only went through a whole call.
C8_Witness ==
    /\ descriptor.some
    /\ Len(descriptor.val.urls.vec) = 0
    /\ Len(descriptor.val.paths) = 2
    /\ arm = "files"
    /\ pc = "done"

IsUrlSource(x) == x.kind = "Url"
IsPathSource(x) == x.kind = "RawTorrent"
ValuesOf(seq) == [i \in 1..Len(seq) |-> seq[i].val]

\* C9: build() of a non-empty batch puts the Url entries, in their order,
\* into urls and the RawTorrent entries, in their order, into paths, and
\* nothing else: the lengths add up to the length of the batch.
C9_StablePartition ==
    [][ (pc = "builder" /\ pc' = "built") =>
            LET t == builder.val.torrents.val
                d == descriptor'.val
            IN /\ d.urls.vec = ValuesOf(SelectSeq(t, IsUrlSource))
               /\ d.paths = ValuesOf(SelectSeq(t, IsPathSource))
               /\ Len(d.urls.vec) + Len(d.paths) = Len(t)
      ]_vars

\* C9 witness: of a batch Url A, file, Url B the descriptor holds urls A, B
\* and the one path, and the call took the two-send arm and issued two sends.
C9_Witness ==
    /\ descriptor.some
    /\ descriptor.val.urls.vec = <<"magnet:A", "magnet:B">>
    /\ descriptor.val.paths = <<"/tmp/a.torrent">>
    /\ arm = "both"
    /\ Cardinality(AllSends) = 2

\* A failure the call has seen: a file not read, a cookie not retrieved.
SeenFailures == FailedReads \cup FailedCookies

\* A send that ended in a transport error or a status that is no success.
SendFailed(s) == s.state = "done" /\ ~SendOk(s)

\* C10: each payload kind is sent at most once, at most once in all when only
\* one kind is present; no send follows a failed read or cookie retrieval,
\* which end the call at once; and a call that saw any failure (read, cookie,
\* transport error, status) ends with an Err.
C10_NoRetries ==
    /\ Cardinality(SendsOf("torrents")) <= 1
    /\ Cardinality(SendsOf("urls")) <= 1
    /\ (arm \in {"urls", "files"}) => Cardinality(AllSends) <= 1
    /\ \A i \in SeenFailures : \A j \in AllSends : j < i
    /\ (SeenFailures # {}) => (pc = "done" /\ result.tag = "Err")
    /\ (pc = "done" /\ (SendFailed(sendT) \/ SendFailed(sendU))) => result.tag = "Err"
    /\ (pc = "done") => (AllSends = {} \/ \A i \in AllSends : CompletionsOf(log[i][2]) # {})

\* C10 witness: only a file was given, its one send answered 403 and the call
\* ended with an Err, nothing sent again.
C10_Witness ==
    /\ arm = "files"
    /\ pc = "done"
    /\ Cardinality(AllSends) = 1
    /\ sendT.outcome = Response(403)
    /\ result.tag = "Err"
\* C11: a descriptor with urls only is sent as a payload whose first text
\* field is "urls" and which has no binary part; a descriptor with paths only
\* is sent as a payload with one binary part per path, holding that path's
\* bytes, in the order of paths, and with no "urls" field.
C11_PayloadKinds ==
    /\ (arm = "urls") =>
          \A i \in AllSends :
              LET f == log[i][3].form
              IN /\ f.parts = <<>>
                 /\ Cardinality({k \in 1..Len(f.texts) : f.texts[k][1] = "urls"}) = 1
    /\ (arm = "files") =>
          \A i \in AllSends :
              LET f == log[i][3].form
                  paths == descriptor.val.paths
              IN /\ Len(f.parts) = Len(paths)
                 /\ \A k \in 1..Len(paths) :
                       /\ f.parts[k][1] = "torrents"
                       /\ f.parts[k][2].bytes = "bytes:" \o paths[k]
                       /\ f.parts[k][2].mime = "application/x-bittorrent"
                 /\ \A k \in 1..Len(f.texts) : f.texts[k][1] # "urls"

\* C11 witness: a descriptor of two different paths and no url was sent with
\* two parts.
C11_Witness ==
    /\ arm = "files"
    /\ descriptor.val.paths = <<"/tmp/b.torrent", "/tmp/a.torrent">>
    /\ \E i \in AllSends : Len(log[i][3].form.parts) = 2

\* C12: build() turns the root folder flag into "unset" when it was never
\* set, "true" when set to true and "false" when set to false; a descriptor's
\* root_folder is always one of these three strings.
C12_RootFolderNormalized ==
    [][ /\ (pc = "builder" /\ pc' = "built") =>
              LET rf == builder.val.root_folder
              IN descriptor'.val.root_folder =
                    [some |-> TRUE,
                     val |-> IF ~rf.some THEN "unset"
                             ELSE IF rf.val = TRUE THEN "true" ELSE "false"]
        /\ descriptor'.some =>
              /\ descriptor'.val.root_folder.some
              /\ descriptor'.val.root_folder.val \in {"unset", "true", "false"}
      ]_vars

\* C12 witness: a descriptor built after root_folder(false).
C12_Witness ==
    /\ descriptor.some
    /\ setterCalls = 1
    /\ descriptor.val.root_folder = Some("false")

RECURSIVE Concat(_)
Concat(seq) == IF seq = <<>> THEN "" ELSE Head(seq) \o Concat(Tail(seq))

\* C13: the "urls" text field of every URL request sent is the descriptor's
\* urls, in their order, one after the other with nothing between them.
C13_UrlsConcatenated ==
    \A i \in SendsOf("urls") :
        log[i][3].form.texts[1] = <<"urls", Concat(descriptor.val.urls.vec)>>

\* C13 witness: urls B, A were sent as the one string "magnet:Bmagnet:A".
C13_Witness ==
    /\ descriptor.some
    /\ descriptor.val.urls.vec = <<"magnet:B", "magnet:A">>
    /\ \E i \in SendsOf("urls") : log[i][3].form.texts[1][2] = "magnet:Bmagnet:A"
\* C16: once get_cookie failed, the call has returned get_cookie's error as
\* it was and nothing has been sent; a single-send arm retrieves the cookie at
\* most once, the two-send arm once per request, and there both retrievals
\* have succeeded before the first of the two sends is issued.
C16_CookieFailureSendsNothing ==
    /\ (FailedCookies # {}) =>
          /\ pc = "done"
          /\ result = [tag |-> "Err", type |-> "CookieError", detail |-> ""]
          /\ AllSends = {}
          /\ sendT.state = "none" /\ sendU.state = "none"
    /\ (arm \in {"urls", "files"}) => Cardinality(CookieCalls) <= 1
    /\ (arm = "both") =>
          /\ Cardinality(CookieCalls) <= 2
          /\ (AllSends # {}) =>
                /\ Cardinality(CookieCalls) = 2
                /\ \A i \in CookieCalls : log[i][2] /\ \A j \in AllSends : i < j
                /\ built_torrents.some /\ built_urls.some

\* C16 witness: in the two-send arm the file request was built, the second
\* cookie retrieval failed and the call returned with nothing sent.
C16_Witness ==
    /\ arm = "both"
    /\ pc = "done"
    /\ built_torrents.some
    /\ Cardinality(CookieCalls) = 2
    /\ Cardinality(FailedCookies) = 1
    /\ AllSends = {}
    /\ result = Err("CookieError", "")

\* C17: the call returns Ok only if no read and no cookie retrieval failed,
\* it issued one send (one kind present) or two (both kinds), and every send
\* it issued ended with a response of a 2xx status.
C17_OkOnlyIfAllSendsOk ==
    (result.tag = "Ok") =>
        /\ pc = "done"
        /\ FailedReads = {} /\ FailedCookies = {}
        /\ AllSends # {}
        /\ (arm = "urls") => (SendOk(sendU) /\ SendsOf("urls") = AllSends)
        /\ (arm = "files") => (SendOk(sendT) /\ SendsOf("torrents") = AllSends)
        /\ (arm = "both") =>
              (SendOk(sendT) /\ SendOk(sendU) /\ Cardinality(AllSends) = 2)
        /\ \A i \in AllSends : \E j \in CompletionsOf(log[i][2]) :
              log[j][3].kind = "response" /\ log[j][3].status \in 200..299

\* C17 witness: both sends answered 200 and the call returned Ok.
C17_Witness ==
    /\ TwoSendsReturned
    /\ sendT.outcome = Response(200)
    /\ sendU.outcome = Response(200)
    /\ result.tag = "Ok"

\* C18: after the join the file send is looked at first: its transport error
\* is returned whatever the URL send did; otherwise the URL send's transport
\* error is returned whatever the file response's status; the reconciliation
\* table is applied only when both sends ended with a response.
C18_FilesInspectedFirst ==
    TwoSendsReturned =>
        /\ GotTransportError(sendT) =>
              result = [tag |-> "Err", type |-> "ReqwestError", detail |-> sendT.outcome.e]
        /\ (GotResponse(sendT) /\ GotTransportError(sendU)) =>
              result = [tag |-> "Err", type |-> "ReqwestError", detail |-> sendU.outcome.e]
        /\ (result.tag = "Ok" \/ result.type = "MiscError") =>
              (GotResponse(sendT) /\ GotResponse(sendU))

\* C18 witness: both sends failed at the transport level and the call
\* returned the file send's error.
C18_Witness ==
    /\ TwoSendsReturned
    /\ GotTransportError(sendT)
    /\ GotTransportError(sendU)
    /\ sendT.outcome.e # sendU.outcome.e
    /\ result = Err("ReqwestError", "torrents")
\* C15: when every read, cookie retrieval and issued send completes, a call
\* that was entered returns; in the two-send arm, once both sends are issued
\* both complete and the call returns.
C15_CallReturns ==
    /\ (arm # "none") ~> (pc = "done" /\ result.tag \in {"Ok", "Err"})
    /\ (arm = "both" /\ sendT.state # "none" /\ sendU.state # "none") ~> TwoSendsReturned

\* C15 witness: the URL send completed first, the file send later, and the
\* call has returned.
C15_Witness ==
    /\ TwoSendsReturned
    /\ result.tag \in {"Ok", "Err"}
    /\ \E i \in CompletionsOf("urls") : \E j \in CompletionsOf("torrents") : i < j
\* Where the present call starts in the history: after the last "call" mark.
CallMark ==
    LET marks == {i \in LogIdx : log[i][1] = "call"}
    IN IF marks = {} THEN 0 ELSE CHOOSE i \in marks : \A j \in marks : j <= i
EarlierSends == {i \in AllSends : i < CallMark}
PresentSends == {i \in AllSends : i > CallMark}

\* The payloads sent by the present call are those built for it, one request
\* per kind, and equal those the previous call sent for the same kind.
SamePayloadsAsBefore ==
    /\ \A i \in PresentSends :
          /\ (log[i][2] = "torrents") => (built_torrents.some /\ log[i][3] = built_torrents.val)
          /\ (log[i][2] = "urls") => (built_urls.some /\ log[i][3] = built_urls.val)
    /\ \A i \in PresentSends : \A j \in EarlierSends :
          (log[i][2] = log[j][2]) => (log[i][3].form = log[j][3].form)

\* C19: no step of a call changes the descriptor, whatever the call's
\* outcome; a request once built is not changed while the call runs, each
\* send carrying the request built for it; and a later call with the same
\* descriptor sends the same payloads as the call before.
C19_DescriptorReusable ==
    [][ /\ descriptor.some => descriptor' = descriptor
        /\ (built_torrents.some /\ pc' # "built") => built_torrents' = built_torrents
        /\ (built_urls.some /\ pc' # "built") => built_urls' = built_urls
        /\ SamePayloadsAsBefore'
      ]_vars

\* C19 witness: a descriptor with a setting, both kinds sent by an earlier
\* call, is in a later call that has issued both sends again.
C19_Witness ==
    /\ setterCalls = 1
    /\ arm = "both"
    /\ Cardinality(EarlierSends) = 2
    /\ Cardinality(PresentSends) = 2
    /\ descriptor.val.paths = <<"/tmp/a.torrent">>
====
